---- MODULE Spec2Model ----
(***************************************************************************)
(* The virtual clock (ElemClock), the client state machine                 *)
(* (BasicStateUpdater) and the round wrappers (with_availability,          *)
(* with_dropout, with_clock) of src/system_simulator/base.py.              *)
(*                                                                         *)
(* Probabilities and random draws are scaled by DrawLevels: a draw d       *)
(* stands for the value d / DrawLevels of rand(), which lies in [0, 1),    *)
(* and a probability p for p / DrawLevels, which lies in [0, 1].           *)
(***************************************************************************)
EXTENDS Integers, Sequences, FiniteSets, TLC

\* ---------------------------------------------------------------- bounds
NumClients == 2
DrawLevels == 3
MaxLatency == 2
MaxTolerance == 2
MaxTime == 4
MaxRounds == 2
MaxSelect == 2
MaxPuts == 4
MaxPutTime == 1
MaxClockPuts == 2
MaxSteps == 3

Clients == 0 .. (NumClients - 1)
Draws == 0 .. (DrawLevels - 1)
Probs == 0 .. DrawLevels
_STATE == {"offline", "idle", "selected", "working", "dropped"}

VARIABLES
    time,                \* ElemClock.time
    q,                   \* ElemClock.q: the heap list of the PriorityQueue
    state_updater,       \* ElemClock.state_updater is not None
    client_states,       \* BasicStateUpdater.client_states
    state_counter,       \* BasicStateUpdater.state_counter
    variables,           \* BasicStateUpdater.variables
    roundwise_fixed_availability,
    availability_latest_round,
    current_round,       \* server.current_round
    tolerance_for_latency, \* server.get_tolerance_for_latency()
    pc,                  \* position of the coordinator in the round
    asynchronous,        \* the flag the round's communicate is called with
    selected_clients,    \* the list handed from phase to phase
    unavailable_selected_clients,
    dropped_selected_clients, \* <<>> while the attribute does not exist
    has_dropped_attr,    \* hasattr(self, '_dropped_selected_clients')
    overdue_clients,
    received_clients,
    result,              \* what the last call returned (<<>> for None)
    waited,              \* clock advances of the round's wait for an idle client
    samples,             \* invocations of the selection function in the round
    nput,                \* number of payloads created so far (their serial)
    flushes,             \* number of flush invocations so far
    call,                \* the last call: its name, arguments and pre-state
    num_steps,           \* client.num_steps of each client
    _working_amount,     \* client._working_amount, set by set_variable
    train_frame,         \* the call of a wrapped train in progress, or <<>>
    seen_time            \* current_time at each flush of the last call

vars == <<time, q, state_updater, client_states, state_counter, variables,
          roundwise_fixed_availability, availability_latest_round,
          current_round, tolerance_for_latency, pc, asynchronous,
          selected_clients, unavailable_selected_clients,
          dropped_selected_clients, has_dropped_attr, overdue_clients,
          received_clients, result, waited, samples, nput, flushes, call,
          num_steps, _working_amount, train_frame, seen_time>>

clockVars == <<time, q, state_updater>>
updaterVars == <<client_states, state_counter, availability_latest_round>>
trainVars == <<num_steps, _working_amount, train_frame>>
configVars == <<variables, roundwise_fixed_availability, tolerance_for_latency,
                trainVars>>
roundVars == <<pc, asynchronous, selected_clients, unavailable_selected_clients,
               dropped_selected_clients, has_dropped_attr, overdue_clients,
               received_clients, current_round, waited, samples>>

\* ------------------------------------------------------ sequence helpers
Range(s) == {s[i] : i \in 1 .. Len(s)}

SelectSeq2(s, S) == SelectSeq(s, LAMBDA x : x \in S)

Max(S) == CHOOSE m \in S : \A x \in S : x <= m

Min2(a, b) == IF a <= b THEN a ELSE b

\* The subsequence of s at the positions of I
PickAt(s, I) ==
    [j \in 1 .. Cardinality(I) |->
        s[CHOOSE i \in I : Cardinality({x \in I : x <= i}) = j]]

\* All sequences over S of length at most n
SeqsUpTo(S, n) == UNION {[1 .. k -> S] : k \in 0 .. n}

\* -------------------------------------------------- ElemClock: the queue
\* ElemClock.Elem: the payload x and its arrival time
Elem(x, t) == [x |-> x, time |-> t]

\* Elem.__lt__: elements compare by time alone
ElemLt(a, b) == a.time < b.time

\* heapq._siftdown(heap, startpos, pos) with newitem = the element moved up;
\* positions are 1-based, so the parent of pos is pos \div 2
RECURSIVE SiftDown(_, _, _, _)
SiftDown(heap, startpos, pos, newitem) ==
    IF pos > startpos /\ ElemLt(newitem, heap[pos \div 2])
    THEN SiftDown([heap EXCEPT ![pos] = heap[pos \div 2]], startpos, pos \div 2, newitem)
    ELSE [heap EXCEPT ![pos] = newitem]

\* heapq._siftup(heap, pos): move the smaller child up until a leaf is
\* reached (the right child when the left one is not smaller), then sift the
\* displaced element down from there
RECURSIVE SiftUp(_, _, _)
SiftUp(heap, pos, newitem) ==
    LET childpos == 2 * pos
        rightpos == childpos + 1
        c == IF rightpos <= Len(heap) /\ ~ElemLt(heap[childpos], heap[rightpos])
             THEN rightpos ELSE childpos
    IN  IF childpos <= Len(heap)
        THEN SiftUp([heap EXCEPT ![pos] = heap[c]], c, newitem)
        ELSE SiftDown([heap EXCEPT ![pos] = newitem], 1, pos, newitem)

\* PriorityQueue.put_nowait: heappush
HeapPush(heap, e) == SiftDown(Append(heap, e), 1, Len(heap) + 1, e)

\* PriorityQueue.get on a non-empty queue: heappop, as <<element, heap left>>
HeapPop(heap) ==
    LET lastelt == heap[Len(heap)]
        rest == SubSeq(heap, 1, Len(heap) - 1)
    IN  IF rest = <<>> THEN <<lastelt, <<>>>>
        ELSE <<rest[1], SiftUp([rest EXCEPT ![1] = lastelt], 1, lastelt)>>

\* ElemClock.put(x, time)
put(heap, x, t) == HeapPush(heap, Elem(x, t))

\* The elements of the queue in the order successive get() calls yield them
RECURSIVE PopAll(_)
PopAll(heap) ==
    IF heap = <<>> THEN <<>>
    ELSE LET p == HeapPop(heap) IN <<p[1]>> \o PopAll(p[2])

\* ElemClock.get_until(t): [res |-> payloads released, q |-> heap left]
RECURSIVE GetUntilLoop(_, _, _)
GetUntilLoop(heap, t, res) ==
    IF heap = <<>> THEN [res |-> res, q |-> heap]
    ELSE LET p == HeapPop(heap)
             elem == p[1]
         IN  IF elem.time > t
             THEN [res |-> res, q |-> put(p[2], elem.x, elem.time)]
             ELSE GetUntilLoop(p[2], t, Append(res, elem.x))

\* get_until comparing with >= in line 143
get_until_strict(heap, t) == GetUntilLoop(heap, t - 1, <<>>)

\* get_until that does not put back the element it popped in line 142
RECURSIVE GetUntilLoopDropping(_, _, _)
GetUntilLoopDropping(heap, t, res) ==
    IF heap = <<>> THEN [res |-> res, q |-> heap]
    ELSE LET p == HeapPop(heap)
             elem == p[1]
         IN  IF elem.time > t
             THEN [res |-> res, q |-> p[2]]
             ELSE GetUntilLoopDropping(p[2], t, Append(res, elem.x))

get_until_dropping(heap, t) == GetUntilLoopDropping(heap, t, <<>>)

get_until(heap, t) == GetUntilLoop(heap, t, <<>>)

\* ElemClock.gets(): every payload, in the order get() yields them
gets(heap) == LET buf == PopAll(heap) IN [i \in 1 .. Len(buf) |-> buf[i].x]

\* ElemClock.conditionally_clear(f), f being "the payload's __cid is in cids"
RECURSIVE PutBack(_, _, _)
PutBack(heap, buf, cids) ==
    IF buf = <<>> THEN heap
    ELSE PutBack(IF buf[1].x.cid \in cids THEN heap ELSE HeapPush(heap, buf[1]),
                 Tail(buf), cids)

\* conditionally_clear that puts every element back
conditionally_clear_nothing(heap, cids) == PutBack(<<>>, PopAll(heap), {})

conditionally_clear(heap, cids) == PutBack(<<>>, PopAll(heap), cids)

\* ------------------------------------------------------ BasicStateUpdater
\* An updater state u is the record of the fields flush and set_client_state
\* write: client_states, state_counter, availability_latest_round.

\* get_client_with_state(state), as a set (the list is in ascending id order)
get_client_with_state(u, state) == {cid \in Clients : u.client_states[cid] = state}

\* set_client_latency_counter(client_ids)
set_client_latency_counter(u, client_ids) ==
    [u EXCEPT !.state_counter = [cid \in Clients |->
        IF cid \in client_ids
        THEN [dropped_counter |-> 0, latency_counter |-> variables[cid].latency]
        ELSE u.state_counter[cid]]]

\* set_client_dropped_counter without line 297
set_client_dropped_counter_only(u, client_ids) ==
    [u EXCEPT !.state_counter = [cid \in Clients |->
        IF cid \in client_ids
        THEN [u.state_counter[cid] EXCEPT !.dropped_counter = tolerance_for_latency]
        ELSE u.state_counter[cid]]]

\* set_client_dropped_counter(client_ids)
set_client_dropped_counter(u, client_ids) ==
    [u EXCEPT !.state_counter = [cid \in Clients |->
        IF cid \in client_ids
        THEN [dropped_counter |-> tolerance_for_latency, latency_counter |-> 0]
        ELSE u.state_counter[cid]]]

\* reset_client_counter(client_ids)
reset_client_counter(u, client_ids) ==
    [u EXCEPT !.state_counter = [cid \in Clients |->
        IF cid \in client_ids
        THEN [dropped_counter |-> 0, latency_counter |-> 0]
        ELSE u.state_counter[cid]]]

\* set_client_state(client_ids, state) for a state of _STATE
set_client_state(u, client_ids, state) ==
    LET u1 == [u EXCEPT !.client_states = [cid \in Clients |->
                   IF cid \in client_ids THEN state ELSE u.client_states[cid]]]
    IN  CASE state = "dropped" -> set_client_dropped_counter(u1, client_ids)
          [] state = "working" -> set_client_latency_counter(u1, client_ids)
          [] state = "idle" -> reset_client_counter(u1, client_ids)
          [] OTHER -> u1

\* Position of cid in the ascending list of the ids of S
Rank(S, cid) == Cardinality({x \in S : x <= cid})

\* Lines 423-434 of flush: the availability toggle.  draws is the stream of
\* rand() values of this flush; offline clients draw first, in ascending id
\* order, then the idle ones.
FlushAvailability(u, draws) ==
    LET offline == get_client_with_state(u, "offline")
        idle == get_client_with_state(u, "idle")
        new_idle_clients == {cid \in offline :
            draws[Rank(offline, cid)] <= variables[cid].prob_available}
        new_offline_clients == {cid \in idle :
            draws[Cardinality(offline) + Rank(idle, cid)] <= variables[cid].prob_unavailable}
        u1 == [u EXCEPT !.availability_latest_round = current_round]
    IN  set_client_state(set_client_state(u1, new_idle_clients, "idle"),
                         new_offline_clients, "offline")

\* The condition of line 423 comparing the round with >=
FlushTogglesFromRound(u) ==
    \/ get_client_with_state(u, "idle") = {}
    \/ ~roundwise_fixed_availability
    \/ current_round >= u.availability_latest_round

\* The condition of line 423
FlushToggles(u) ==
    \/ get_client_with_state(u, "idle") = {}
    \/ ~roundwise_fixed_availability
    \/ current_round > u.availability_latest_round

\* The countdown resolving a client when its counter reaches zero
FlushDroppedAtZero(u, draws, used) ==
    LET dropped == get_client_with_state(u, "dropped")
        expired == {cid \in dropped : u.state_counter[cid].dropped_counter - 1 <= 0}
        to_offline == {cid \in expired :
            draws[used + Rank(expired, cid)] < variables[cid].prob_unavailable}
        u1 == [u EXCEPT !.state_counter = [cid \in Clients |->
                  IF cid \in dropped
                  THEN [u.state_counter[cid] EXCEPT !.dropped_counter =
                           IF cid \in expired THEN 0 ELSE @ - 1]
                  ELSE u.state_counter[cid]]]
    IN  set_client_state(set_client_state(u1, to_offline, "offline"),
                         expired \ to_offline, "idle")

\* Lines 436-446 of flush: the countdown of the dropped clients; used is the
\* number of draws the toggle has taken from the stream
FlushDropped(u, draws, used) ==
    LET dropped == get_client_with_state(u, "dropped")
        expired == {cid \in dropped : u.state_counter[cid].dropped_counter - 1 < 0}
        to_offline == {cid \in expired :
            draws[used + Rank(expired, cid)] < variables[cid].prob_unavailable}
        u1 == [u EXCEPT !.state_counter = [cid \in Clients |->
                  IF cid \in dropped
                  THEN [u.state_counter[cid] EXCEPT !.dropped_counter =
                           IF cid \in expired THEN 0 ELSE @ - 1]
                  ELSE u.state_counter[cid]]]
    IN  set_client_state(set_client_state(u1, to_offline, "offline"),
                         expired \ to_offline, "idle")

\* BasicStateUpdater.flush() with the stream of draws it consumes
flush(u, draws) ==
    IF FlushToggles(u)
    THEN FlushDropped(FlushAvailability(u, draws), draws,
             Cardinality(get_client_with_state(u, "offline"))
               + Cardinality(get_client_with_state(u, "idle")))
    ELSE FlushDropped(u, draws, 0)

\* The streams of draws one flush can consume: at most one per client
DrawStreams == [1 .. NumClients -> Draws]

\* The updater states after n successive flushes from a state of U
RECURSIVE FlushTimes(_, _)
FlushTimes(U, n) ==
    IF n = 0 THEN U
    ELSE FlushTimes({flush(u, draws) : u \in U, draws \in DrawStreams}, n - 1)

\* The updater state held by the variables
Updater == [client_states |-> client_states, state_counter |-> state_counter,
            availability_latest_round |-> availability_latest_round]

\* Store an updater state
SetUpdater(u) ==
    /\ client_states' = u.client_states
    /\ state_counter' = u.state_counter
    /\ availability_latest_round' = u.availability_latest_round

\* --------------------------------------------------------- ElemClock calls
\* What a call leaves behind for inspection: its name, its argument and
\* whether it raised
Call(op, arg, raised) == [op |-> op, arg |-> arg, raised |-> raised]

\* A payload: the package fields __cid and __t, and the serial of its creation
Payload(cid, t, n) == [cid |-> cid, t |-> t, n |-> n]

\* The updater states ElemClock.step(delta_t) can leave, for delta_t >= 0:
\* delta_t flushes when an updater is registered (lines 96-98)
\* step flushing once more than delta_t
StepFlushesOneMore(delta_t) == IF state_updater THEN delta_t + 1 ELSE 0

StepFlushes(delta_t) == IF state_updater THEN delta_t ELSE 0

StepOutcomes(u, delta_t) == FlushTimes({u}, StepFlushes(delta_t))

\* Lines 96-99: current_time as each flush of step(delta_t) finds it; the
\* time is added to once, after the loop of the flushes
SeenTimes(delta_t) == [k \in 1 .. StepFlushes(delta_t) |-> time]

\* ElemClock.step(delta_t) called directly
ClockStep(delta_t) ==
    /\ pc = "ready"
    /\ IF delta_t < 0
       THEN /\ call' = Call("step", delta_t, TRUE)
            /\ UNCHANGED <<time, flushes, updaterVars>>
            /\ seen_time' = <<>>
       ELSE /\ time + delta_t <= MaxTime
            /\ call' = Call("step", delta_t, FALSE)
            /\ \E u \in StepOutcomes(Updater, delta_t) : SetUpdater(u)
            /\ flushes' = flushes + StepFlushes(delta_t)
            /\ seen_time' = SeenTimes(delta_t)
            /\ time' = time + delta_t
    /\ result' = <<>>
    /\ UNCHANGED <<q, state_updater, configVars, roundVars, nput>>

\* set_time without the check of line 108
ClockSetTimeUnchecked(t) ==
    /\ pc = "ready"
    /\ call' = Call("set_time", t, FALSE)
    /\ time' = t
    /\ result' = <<>>
    /\ UNCHANGED <<q, state_updater, updaterVars, configVars, roundVars,
                   nput, flushes>>
    /\ seen_time' = <<>>

\* ElemClock.set_time(t) called directly
ClockSetTime(t) ==
    /\ pc = "ready"
    /\ IF t < time
       THEN /\ call' = Call("set_time", t, TRUE)
            /\ UNCHANGED time
       ELSE /\ call' = Call("set_time", t, FALSE)
            /\ time' = t
    /\ result' = <<>>
    /\ UNCHANGED <<q, state_updater, updaterVars, configVars, roundVars,
                   nput, flushes>>
    /\ seen_time' = <<>>

\* ElemClock.put(x, time) called directly with a fresh payload
ClockPut(cid, t) ==
    /\ pc = "ready"
    /\ nput < MaxPuts
    /\ q' = put(q, Payload(cid, t, nput + 1), t)
    /\ nput' = nput + 1
    /\ call' = Call("put", t, FALSE)
    /\ result' = <<>>
    /\ UNCHANGED <<time, state_updater, updaterVars, configVars, roundVars,
                   flushes>>
    /\ seen_time' = <<>>

\* ElemClock.get_until(t) called directly
ClockGetUntil(t) ==
    /\ pc = "ready"
    /\ LET r == get_until(q, t) IN q' = r.q /\ result' = r.res
    /\ call' = Call("get_until", t, FALSE)
    /\ UNCHANGED <<time, state_updater, updaterVars, configVars, roundVars,
                   nput, flushes>>
    /\ seen_time' = <<>>

\* ElemClock.get_sofar()
ClockGetSofar ==
    /\ pc = "ready"
    /\ LET r == get_until(q, time) IN q' = r.q /\ result' = r.res
    /\ call' = Call("get_sofar", time, FALSE)
    /\ UNCHANGED <<time, state_updater, updaterVars, configVars, roundVars,
                   nput, flushes>>
    /\ seen_time' = <<>>

\* ElemClock.gets()
ClockGets ==
    /\ pc = "ready"
    /\ result' = gets(q)
    /\ q' = <<>>
    /\ call' = Call("gets", 0, FALSE)
    /\ UNCHANGED <<time, state_updater, updaterVars, configVars, roundVars,
                   nput, flushes>>
    /\ seen_time' = <<>>

\* ElemClock.conditionally_clear(lambda x: x['__cid'] in cids)
ClockConditionallyClear(cids) ==
    /\ pc = "ready"
    /\ q' = conditionally_clear(q, cids)
    /\ call' = Call("conditionally_clear", cids, FALSE)
    /\ result' = <<>>
    /\ UNCHANGED <<time, state_updater, updaterVars, configVars, roundVars,
                   nput, flushes>>
    /\ seen_time' = <<>>

\* ElemClock.register_state_updater(state_updater)
RegisterStateUpdater ==
    /\ pc = "ready"
    /\ ~state_updater
    /\ state_updater' = TRUE
    /\ call' = Call("register_state_updater", 0, FALSE)
    /\ result' = <<>>
    /\ UNCHANGED <<time, q, updaterVars, configVars, roundVars, nput, flushes>>
    /\ seen_time' = <<>>

\* -------------------------------------------------------- construction
\* BasicStateUpdater.__init__ (lines 233-245): the variables of a new client
DefaultVariables ==
    [prob_available |-> DrawLevels, prob_unavailable |-> 0, prob_drop |-> 0,
     latency |-> 0]

\* ElemClock.__init__ (lines 84-85), the state, counters and flags of
\* BasicStateUpdater.__init__ (lines 233-235, 245), and a coordinator that has
\* not started a round
Blank ==
    /\ time = 0
    /\ q = <<>>
    /\ client_states = [cid \in Clients |-> "idle"]
    /\ state_counter = [cid \in Clients |-> [dropped_counter |-> 0, latency_counter |-> 0]]
    /\ availability_latest_round = -1
    /\ current_round = 0
    /\ pc = "ready"
    /\ asynchronous = FALSE
    /\ selected_clients = <<>>
    /\ unavailable_selected_clients = <<>>
    /\ dropped_selected_clients = <<>>
    /\ has_dropped_attr = FALSE
    /\ overdue_clients = {}
    /\ received_clients = <<>>
    /\ result = <<>>
    /\ waited = 0
    /\ samples = 0
    /\ nput = 0
    /\ flushes = 0
    /\ call = Call("init", 0, FALSE)
    /\ train_frame = <<>>
    /\ seen_time = <<>>

\* Clients with one local step each; line 240 makes it their working_amount
Untrained ==
    /\ num_steps = [cid \in Clients |-> 1]
    /\ _working_amount = num_steps

\* ElemClock.__init__ and BasicStateUpdater.__init__
Constructed ==
    /\ Blank
    /\ Untrained
    /\ state_updater = FALSE
    /\ variables = [cid \in Clients |-> DefaultVariables]
    /\ roundwise_fixed_availability = FALSE

\* The queue of the clock driven directly through its interface
QueueNext ==
    \/ \E cid \in Clients, t \in -1 .. MaxPutTime : ClockPut(cid, t)
    \/ \E t \in -1 .. MaxPutTime : ClockGetUntil(t)
    \/ ClockGetSofar
    \/ ClockGets
    \/ \E cids \in SUBSET Clients : ClockConditionallyClear(cids)

\* The time of the clock driven directly through its interface, with a few
\* queue operations in between
ClockNext ==
    \/ \E delta_t \in -1 .. MaxTolerance : ClockStep(delta_t)
    \/ \E t \in 0 .. MaxTime : ClockSetTime(t)
    \/ RegisterStateUpdater
    \/ \E cid \in Clients, t \in 0 .. MaxPutTime :
          nput < MaxClockPuts /\ ClockPut(cid, t)
    \/ ClockGetSofar

\* A new clock and a new updater; nothing is dropped here, so the server's
\* tolerance is never read
ClockInit == Constructed /\ tolerance_for_latency = 0

ClockSpec == ClockInit /\ [][ClockNext]_vars

QueueSpec == ClockInit /\ [][QueueNext]_vars

\* ------------------------------------------------------------ the round
\* The coordinator starts a round: server.current_round moves on and the
\* round's communicate will be called with the flag async
StartRound(async) ==
    /\ pc \in {"ready", "returned"}
    /\ current_round < MaxRounds
    /\ current_round' = current_round + 1
    /\ asynchronous' = async
    /\ pc' = "sample"
    /\ waited' = 0
    /\ samples' = 0
    /\ call' = Call("round", async, FALSE)
    /\ UNCHANGED <<clockVars, updaterVars, configVars, selected_clients,
                   unavailable_selected_clients, dropped_selected_clients,
                   has_dropped_attr, overdue_clients, received_clients, result,
                   nput, flushes>>
    /\ seen_time' = <<>>

\* sample_with_availability, lines 487-489: one turn of the loop, taken while
\* no client is idle
WaitForAvailability ==
    /\ pc = "sample"
    /\ get_client_with_state(Updater, "idle") = {}
    /\ time + 1 <= MaxTime
    /\ \E u \in StepOutcomes(Updater, 1) : SetUpdater(u)
    /\ flushes' = flushes + StepFlushes(1)
    /\ seen_time' = SeenTimes(1)
    /\ time' = time + 1
    /\ waited' = waited + 1
    /\ call' = Call("wait", 1, FALSE)
    /\ UNCHANGED <<q, state_updater, configVars, pc, asynchronous,
                   selected_clients, unavailable_selected_clients,
                   dropped_selected_clients, has_dropped_attr, overdue_clients,
                   received_clients, current_round, samples, result, nput>>

\* sample_with_availability without the loop of lines 487-489
SampleWithoutWaiting(selection) ==
    /\ pc = "sample"
    /\ LET available_clients == get_client_with_state(Updater, "idle")
           effective_clients == Range(selection) \cap available_clients
           kept == SelectSeq2(selection, effective_clients)
       IN  /\ unavailable_selected_clients' =
                  SelectSeq2(selection, Clients \ effective_clients)
           /\ selected_clients' = kept
           /\ SetUpdater(set_client_state(Updater, Range(kept), "selected"))
           /\ call' = Call("sample", [selection |-> selection,
                                     idle |-> available_clients,
                                     client_states |-> client_states], FALSE)
    /\ samples' = samples + 1
    /\ pc' = "communicate"
    /\ result' = <<>>
    /\ UNCHANGED <<clockVars, configVars, asynchronous, dropped_selected_clients,
                   has_dropped_attr, overdue_clients, received_clients,
                   current_round, waited, nput, flushes>>
    /\ seen_time' = <<>>

\* sample_with_availability returning the selection as it is, without the
\* filter of lines 493-498
SampleUnfiltered(selection) ==
    /\ pc = "sample"
    /\ LET available_clients == get_client_with_state(Updater, "idle")
       IN  /\ available_clients # {}
           /\ unavailable_selected_clients' = <<>>
           /\ selected_clients' = selection
           /\ SetUpdater(set_client_state(Updater, Range(selection), "selected"))
           /\ call' = Call("sample", [selection |-> selection,
                                     idle |-> available_clients,
                                     client_states |-> client_states], FALSE)
    /\ samples' = samples + 1
    /\ pc' = "communicate"
    /\ result' = <<>>
    /\ UNCHANGED <<clockVars, configVars, asynchronous, dropped_selected_clients,
                   has_dropped_attr, overdue_clients, received_clients,
                   current_round, waited, nput, flushes>>
    /\ seen_time' = <<>>

\* sample_with_availability, lines 491-500, once a client is idle: selection
\* is what the selection function returns
Sample(selection) ==
    /\ pc = "sample"
    /\ LET available_clients == get_client_with_state(Updater, "idle")
           effective_clients == Range(selection) \cap available_clients
           kept == SelectSeq2(selection, effective_clients)
       IN  /\ available_clients # {}
           /\ unavailable_selected_clients' =
                  SelectSeq2(selection, Clients \ effective_clients)
           /\ selected_clients' = kept
           /\ SetUpdater(set_client_state(Updater, Range(kept), "selected"))
           /\ call' = Call("sample", [selection |-> selection,
                                     idle |-> available_clients,
                                     client_states |-> client_states], FALSE)
    /\ samples' = samples + 1
    /\ pc' = "communicate"
    /\ result' = <<>>
    /\ UNCHANGED <<clockVars, configVars, asynchronous, dropped_selected_clients,
                   has_dropped_attr, overdue_clients, received_clients,
                   current_round, waited, nput, flushes>>
    /\ seen_time' = <<>>

\* The clients of selected whose draw is < prob_drop
DroppedByStrict(selected, draws) ==
    PickAt(selected, {i \in 1 .. Len(selected) :
                         draws[i] < variables[selected[i]].prob_drop})

\* communicate_with_dropout, lines 515-519: the clients of selected whose draw
\* is <= prob_drop, one draw per selected client in selection order
DroppedBy(selected, draws) ==
    PickAt(selected, {i \in 1 .. Len(selected) :
                         draws[i] <= variables[selected[i]].prob_drop})

\* communicate_with_dropout up to its call of the wrapped communicate
CommunicateWithDropout ==
    /\ pc = "communicate"
    /\ IF Len(selected_clients) > 0
       THEN \E draws \in [1 .. Len(selected_clients) -> Draws] :
              LET dropped == DroppedBy(selected_clients, draws)
              IN  /\ dropped_selected_clients' = dropped
                  /\ has_dropped_attr' = TRUE
                  /\ SetUpdater(set_client_state(Updater, Range(dropped), "dropped"))
                  /\ selected_clients' =
                         SelectSeq2(selected_clients, Clients \ Range(dropped))
                  /\ call' = Call("dropout", [selected |-> selected_clients,
                                             client_states |-> client_states,
                                             draws |-> draws], FALSE)
       ELSE /\ UNCHANGED <<dropped_selected_clients, has_dropped_attr,
                           updaterVars, selected_clients>>
            /\ call' = Call("dropout", [selected |-> <<>>,
                                       client_states |-> client_states,
                                       draws |-> <<>>], FALSE)
    /\ pc' = "clock"
    /\ UNCHANGED <<clockVars, configVars, asynchronous,
                   unavailable_selected_clients, overdue_clients,
                   received_clients, current_round, waited, samples, result,
                   nput, flushes>>
    /\ seen_time' = <<>>

\* communicate_with_clock, lines 603-606: the packages of the selected
\* clients, tagged with __cid and __t = current_time + latency
Packages(selected) ==
    [i \in 1 .. Len(selected) |->
        Payload(selected[i], time + variables[selected[i]].latency, nput + i)]

\* Line 606: put every package, in order
RECURSIVE PutAll(_, _)
PutAll(heap, pkgs) ==
    IF pkgs = <<>> THEN heap
    ELSE PutAll(put(heap, pkgs[1], pkgs[1].t), Tail(pkgs))

\* Lines 616-619: the time the synchronous collection waits
MaxLatencyOf(selected) == Max({variables[cid].latency : cid \in Range(selected)})

\* delta_t never waiting longer than the slowest selected client
DeltaTMin(selected) == Min2(tolerance_for_latency, MaxLatencyOf(selected))

\* delta_t without any_drop
DeltaTNoDrop(selected) ==
    LET max_latency == MaxLatencyOf(selected)
    IN  IF max_latency > tolerance_for_latency
        THEN tolerance_for_latency ELSE max_latency

DeltaT(selected) ==
    LET max_latency == MaxLatencyOf(selected)
        any_drop == Len(dropped_selected_clients) > 0
        any_overdue == max_latency > tolerance_for_latency
    IN  IF any_drop \/ any_overdue THEN tolerance_for_latency ELSE max_latency

\* [pkg_i['__cid'] for pkg_i in pkgs]
CidsOf(pkgs) == [i \in 1 .. Len(pkgs) |-> pkgs[i].cid]

\* The packages left in the order get_until released them, without the
\* re-sorting of lines 631-632
ResortNot(selected, eff_pkgs) == eff_pkgs

\* Lines 631-632: pkg_map keeps the last package of each client; the result
\* has one entry per position of selected whose client has a package
Resort(selected, eff_pkgs) ==
    LET eff_cids == Range(CidsOf(eff_pkgs))
        pkg_map == [cid \in eff_cids |->
            eff_pkgs[Max({i \in 1 .. Len(eff_pkgs) : eff_pkgs[i].cid = cid})]]
        kept == SelectSeq2(selected, eff_cids)
    IN  [i \in 1 .. Len(kept) |-> pkg_map[kept[i]]]

\* What the call leaves behind for inspection
TimingCall(delta_t, eff_pkgs) ==
    Call("clock", [selected |-> selected_clients, time |-> time, q |-> q,
                   delta_t |-> delta_t, eff_pkgs |-> eff_pkgs,
                   flushes |-> flushes, client_states |-> client_states], FALSE)

\* communicate_with_clock, lines 577-580: nothing to wait for
TimingNobody ==
    /\ ~asynchronous /\ Len(selected_clients) = 0
    /\ LET delta_t == IF has_dropped_attr /\ Len(dropped_selected_clients) > 0
                      THEN tolerance_for_latency ELSE 0
       IN  /\ time + delta_t <= MaxTime
           /\ \E u \in StepOutcomes(Updater, delta_t) : SetUpdater(u)
           /\ flushes' = flushes + StepFlushes(delta_t)
           /\ seen_time' = SeenTimes(delta_t)
           /\ time' = time + delta_t
           /\ call' = TimingCall(delta_t, <<>>)
    /\ result' = <<>>
    /\ UNCHANGED <<q, nput, overdue_clients, received_clients>>

\* communicate_with_clock, lines 582-612 and 633-635, asynchronous
TimingAsynchronous ==
    /\ asynchronous
    /\ LET u1 == set_client_state(Updater, Range(selected_clients), "working")
           got == get_until(PutAll(q, Packages(selected_clients)), time)
           eff_cids == CidsOf(got.res)
       IN  /\ q' = got.q
           /\ SetUpdater(set_client_state(u1, Range(eff_cids), "offline"))
           /\ received_clients' = eff_cids
           /\ result' = got.res
           /\ call' = TimingCall(0, got.res)
    /\ nput' = nput + Len(selected_clients)
    /\ UNCHANGED <<time, flushes, overdue_clients>>
    /\ seen_time' = <<>>

\* communicate_with_clock, lines 582-606 and 613-635, synchronous with
\* somebody selected
TimingSynchronous ==
    /\ ~asynchronous /\ Len(selected_clients) > 0
    /\ LET delta_t == DeltaT(selected_clients)
           u1 == set_client_state(Updater, Range(selected_clients), "working")
           got == get_until(PutAll(q, Packages(selected_clients)), time + delta_t)
           eff_cids == Range(CidsOf(got.res))
           overdue == Range(selected_clients) \ eff_cids
           eff_pkgs == Resort(selected_clients, got.res)
       IN  /\ time + delta_t <= MaxTime
           /\ \E u2 \in StepOutcomes(u1, delta_t) :
                LET u3 == IF overdue # {}
                          THEN set_client_state(u2, overdue, "idle") ELSE u2
                IN  SetUpdater(set_client_state(u3, eff_cids, "offline"))
           /\ flushes' = flushes + StepFlushes(delta_t)
           /\ seen_time' = SeenTimes(delta_t)
           /\ time' = time + delta_t
           /\ q' = IF overdue # {} THEN conditionally_clear(got.q, overdue)
                   ELSE got.q
           /\ overdue_clients' = overdue
           /\ received_clients' = CidsOf(eff_pkgs)
           /\ result' = eff_pkgs
           /\ call' = TimingCall(delta_t, got.res)
    /\ nput' = nput + Len(selected_clients)

\* communicate_with_clock, called by communicate_with_dropout with the
\* clients that have not dropped
CommunicateWithClock ==
    /\ pc = "clock"
    /\ \/ TimingNobody
       \/ TimingAsynchronous
       \/ TimingSynchronous
    /\ pc' = "returned"
    /\ UNCHANGED <<state_updater, configVars, asynchronous, selected_clients,
                   unavailable_selected_clients, dropped_selected_clients,
                   has_dropped_attr, current_round, waited, samples>>

\* ------------------------------------------------------- configuration
\* The probabilities set_variable gives a client before the rounds: the
\* defaults of lines 237-239, or probabilities strictly between 0 and 1, with
\* which every comparison of flush and of the dropout phase can go both ways
ProbabilityValues ==
    {[prob_available |-> DrawLevels, prob_unavailable |-> 0, prob_drop |-> 0],
     [prob_available |-> 1, prob_unavailable |-> 1, prob_drop |-> 1]}

VariableValues ==
    {[prob_available |-> p.prob_available, prob_unavailable |-> p.prob_unavailable,
      prob_drop |-> p.prob_drop, latency |-> l] :
        p \in ProbabilityValues, l \in 0 .. MaxLatency}

\* The system as the rounds find it: updater registered with the clock,
\* variables set, round-fixed availability chosen
Init ==
    /\ Blank
    /\ Untrained
    /\ state_updater = TRUE
    /\ variables \in [Clients -> VariableValues]
    /\ roundwise_fixed_availability \in BOOLEAN
    /\ tolerance_for_latency \in 0 .. MaxTolerance

Next ==
    \/ \E async \in BOOLEAN : StartRound(async)
    \/ WaitForAvailability
    \/ \E selection \in SeqsUpTo(Clients, MaxSelect) : Sample(selection)
    \/ CommunicateWithDropout
    \/ CommunicateWithClock

Spec == Init /\ [][Next]_vars

\* ------------------------------------------- the updater called directly
\* The coordinator has not started its first round
BeforeRounds == pc = "ready"

\* set_client_state(cid, state) called from outside the round wrappers; a
\* state outside _STATE raises (line 266)
ExternalSetClientState(cid, state) ==
    /\ BeforeRounds
    /\ IF state \in _STATE
       THEN /\ SetUpdater(set_client_state(Updater, {cid}, state))
            /\ call' = Call("set_client_state", <<cid, state>>, FALSE)
       ELSE /\ UNCHANGED updaterVars
            /\ call' = Call("set_client_state", <<cid, state>>, TRUE)
    /\ UNCHANGED <<clockVars, configVars, roundVars, result, nput, flushes>>
    /\ seen_time' = <<>>

\* set_client_latency_counter, set_client_dropped_counter and
\* reset_client_counter called from outside the round wrappers
ExternalSetCounter(cid, which) ==
    /\ BeforeRounds
    /\ SetUpdater(CASE which = "latency" -> set_client_latency_counter(Updater, {cid})
                    [] which = "dropped" -> set_client_dropped_counter(Updater, {cid})
                    [] OTHER -> reset_client_counter(Updater, {cid}))
    /\ call' = Call("set_counter", <<cid, which>>, FALSE)
    /\ UNCHANGED <<clockVars, configVars, roundVars, result, nput, flushes>>
    /\ seen_time' = <<>>

\* Calls of the updater's setters and advances of the clock, then the rounds
UpdaterNext ==
    \/ Next
    \/ \E delta_t \in 0 .. 1 : ClockStep(delta_t)
    \/ \E cid \in Clients, state \in _STATE \cup {"unknown"} :
          ExternalSetClientState(cid, state)
    \/ \E cid \in Clients, which \in {"latency", "dropped", "reset"} :
          ExternalSetCounter(cid, which)

\* One configuration in which both counters can be non-zero: the largest
\* tolerance and latency, and probabilities strictly between 0 and 1
UpdaterInit ==
    /\ Init
    /\ ~roundwise_fixed_availability
    /\ tolerance_for_latency = MaxTolerance
    /\ \A cid \in Clients :
          /\ variables[cid].latency = MaxLatency
          /\ variables[cid].prob_available = 1

UpdaterSpec == UpdaterInit /\ [][UpdaterNext]_vars

\* ------------------------------------------------------------- the clock
IsGetUntil(c) == c.op \in {"get_until", "get_sofar"}

\* C1: current_time never decreases, whatever is called; step(delta) raises
\* exactly when delta < 0 and set_time(t) exactly when t < current_time, and a
\* call that raises leaves the time, the queue and the flush count unchanged.
C1_TimeNeverDecreases ==
    [][/\ time' >= time
       /\ call'.op = "step" => (call'.raised <=> call'.arg < 0)
       /\ call'.op = "set_time" => (call'.raised <=> call'.arg < time)
       /\ call'.raised => time' = time /\ q' = q /\ flushes' = flushes]_vars

\* A call raised with the clock advanced, flushes made and elements queued
C1_Witness ==
    /\ call.raised
    /\ time > 0
    /\ flushes > 0
    /\ q # <<>>

\* The payloads get_until(t) must release from heap, and the elements it
\* must keep
Due(heap, t) == {e \in Range(heap) : e.time <= t}
NotDue(heap, t) == {e \in Range(heap) : e.time > t}

\* C2: get_until(t) returns exactly the queued payloads with arrival time
\* <= t, each once, in ascending order of arrival time, and leaves exactly
\* the elements with arrival time > t queued, each once and with its time.
C2_GetUntilExact ==
    [][IsGetUntil(call') =>
        /\ Range(result') = {e.x : e \in Due(q, call'.arg)}
        /\ Len(result') = Cardinality(Due(q, call'.arg))
        /\ \A i, j \in 1 .. Len(result') : i < j => result'[i].t <= result'[j].t
        /\ Range(q') = NotDue(q, call'.arg)
        /\ Len(q') = Cardinality(NotDue(q, call'.arg))]_vars

\* get_until released payloads of two different times and kept a later one
C2_Witness ==
    /\ call.op = "get_until"
    /\ \E i, j \in 1 .. Len(result) : result[i].t < result[j].t
    /\ q # <<>>

\* C3: payloads of equal arrival time come out of get_until, get_sofar and
\* gets in the order in which they were put (ascending serial).
C3_TiesInPutOrder ==
    (IsGetUntil(call) \/ call.op = "gets") =>
        \A i, j \in 1 .. Len(result) :
            (i < j /\ result[i].t = result[j].t) => result[i].n < result[j].n

\* C4: step(delta) with delta >= 0 adds delta to the time and, with an
\* updater registered, makes delta flushes; without one it makes none and
\* changes no client; set_time(t) sets the time and makes no flush.
C4_StepFlushesDeltaTimes ==
    [][/\ (call'.op = "step" /\ ~call'.raised) =>
            /\ time' = time + call'.arg
            /\ flushes' = flushes + (IF state_updater THEN call'.arg ELSE 0)
            /\ ~state_updater => UNCHANGED updaterVars
       /\ call'.op = "set_time" =>
            /\ flushes' = flushes
            /\ UNCHANGED updaterVars
            /\ ~call'.raised => time' = call'.arg]_vars

\* step(2) has run with an updater registered, after an earlier advance
C4_Witness ==
    /\ call.op = "step"
    /\ call.arg = 2
    /\ state_updater
    /\ flushes >= 2
    /\ time > flushes

\* ------------------------------------------------------------ the rounds
IdleClients == get_client_with_state(Updater, "idle")

\* The timing phase of a synchronous round has returned, having been called
\* with a non-empty list of clients
SyncReturned ==
    /\ pc = "returned"
    /\ ~asynchronous
    /\ call.arg.selected # <<>>

\* The package of the selected client cid arrives within the wait of the call
InTime(cid) == variables[cid].latency <= call.arg.delta_t

\* C6: when a synchronous timing phase returns, every client it was called
\* with whose package arrived within the wait is offline and received, every
\* other one is idle, overdue and not received, and the queue holds no
\* package of an overdue client.
C6_CollectedOfflineOverdueIdle ==
    SyncReturned =>
        /\ \A cid \in Range(call.arg.selected) :
              IF InTime(cid)
              THEN /\ client_states[cid] = "offline"
                   /\ cid \in Range(received_clients)
                   /\ cid \notin overdue_clients
              ELSE /\ client_states[cid] = "idle"
                   /\ cid \notin Range(received_clients)
                   /\ cid \in overdue_clients
        /\ \A i \in 1 .. Len(q) : q[i].x.cid \notin overdue_clients

\* A synchronous round collected one client and found another one overdue
C6_Witness ==
    /\ SyncReturned
    /\ \E cid \in Range(call.arg.selected) : InTime(cid)
    /\ \E cid \in Range(call.arg.selected) : ~InTime(cid)

\* The advance of the clock over the timing phase that has returned
Advance == time - call.arg.time

AnyOverdueOrDropped == overdue_clients # {} \/ dropped_selected_clients # <<>>

\* C7, as claimed: the synchronous timing phase advances the clock by
\* min(tolerance_for_latency, max_latency) when a selected client is overdue or
\* was dropped, and by max_latency otherwise.
C7_AdvanceIsMinimum ==
    SyncReturned =>
        Advance = IF AnyOverdueOrDropped
                  THEN Min2(tolerance_for_latency, MaxLatencyOf(call.arg.selected))
                  ELSE MaxLatencyOf(call.arg.selected)

\* C7, amended: the synchronous timing phase advances the clock by
\* tolerance_for_latency when a selected client is overdue or was dropped
\* this round, and by max_latency otherwise.
C7_AdvanceIsTolerance ==
    SyncReturned =>
        Advance = IF AnyOverdueOrDropped
                  THEN tolerance_for_latency
                  ELSE MaxLatencyOf(call.arg.selected)

\* A client was dropped and every remaining one answers before the tolerance:
\* the clock advanced by the tolerance all the same
C7_Witness ==
    /\ SyncReturned
    /\ dropped_selected_clients # <<>>
    /\ MaxLatencyOf(call.arg.selected) < tolerance_for_latency
    /\ Advance = tolerance_for_latency

\* C8: in the sampling phase the selection function is invoked once, and only
\* with an idle client; while no client is idle the only step is an advance of
\* the clock by one unit with one flush, and once a client is idle the only
\* step is the selection, which does not advance the clock.
C8_SampleOnceWhenIdle ==
    /\ [](samples = IF pc = "sample" THEN 0 ELSE IF pc = "ready" THEN samples ELSE 1)
    /\ [][pc = "sample" =>
            IF IdleClients = {}
            THEN /\ pc' = "sample" /\ samples' = samples
                 /\ waited' = waited + 1
                 /\ time' = time + 1 /\ flushes' = flushes + 1
            ELSE /\ pc' = "communicate" /\ samples' = samples + 1
                 /\ waited' = waited
                 /\ time' = time /\ flushes' = flushes]_vars

\* The selection was made after two advances of the clock
C8_Witness ==
    /\ pc = "communicate"
    /\ waited >= 2
    /\ samples = 1

\* The payloads queued when the timing phase was called, and those it put
PackagesBefore == {call.arg.q[i].x : i \in 1 .. Len(call.arg.q)}

PackagesPut ==
    {Payload(call.arg.selected[i],
             call.arg.time + variables[call.arg.selected[i]].latency,
             nput - Len(call.arg.selected) + i) : i \in 1 .. Len(call.arg.selected)}

AsyncReturned == pc = "returned" /\ asynchronous

\* C9: an asynchronous timing phase returns exactly the packages, queued
\* before or put by it, whose arrival time is <= current_time, each once,
\* keeps exactly the later ones queued, each once and under its arrival time,
\* and neither advances the clock nor flushes.
C9_AsyncReturnsArrived ==
    AsyncReturned =>
        LET all == PackagesBefore \cup PackagesPut
        IN  /\ Range(result) = {p \in all : p.t <= time}
            /\ Len(result) = Cardinality({p \in all : p.t <= time})
            /\ {q[i].x : i \in 1 .. Len(q)} = {p \in all : p.t > time}
            /\ Len(q) = Cardinality({p \in all : p.t > time})
            /\ \A i \in 1 .. Len(q) : q[i].time = q[i].x.t
            /\ time = call.arg.time
            /\ flushes = call.arg.flushes

\* An asynchronous round returned a package of an earlier round and left a
\* package of its own queued
C9_Witness ==
    /\ AsyncReturned
    /\ \E i \in 1 .. Len(result) : result[i].n <= nput - Len(call.arg.selected)
    /\ \E i \in 1 .. Len(q) : q[i].x.n > nput - Len(call.arg.selected)

\* Some run of at most n flushes from u makes a client idle
RECURSIVE CanBecomeIdle(_, _)
CanBecomeIdle(U, n) ==
    \/ \E u \in U : get_client_with_state(u, "idle") # {}
    \/ n > 0 /\ CanBecomeIdle(FlushTimes(U, 1), n - 1)

\* C10: with prob_available > 0 for every client, the wait of the sampling
\* phase ends: whenever it is waiting, flushes can make a client idle.  A
\* dropped client leaves that state within tolerance_for_latency + 1 flushes
\* and an offline one can turn idle in one more, so a wait that can end can
\* end within MaxTolerance + 2 flushes.
C10_WaitEnds ==
    (/\ pc = "sample"
     /\ IdleClients = {}
     /\ \A cid \in Clients : variables[cid].prob_available > 0)
        => CanBecomeIdle({Updater}, MaxTolerance + 2)

\* --------------------------------------------------------- the counters
\* C5: no client ever has dropped_counter and latency_counter both non-zero.
C5_OneCounterAtMost ==
    \A cid \in Clients :
        \/ state_counter[cid].dropped_counter = 0
        \/ state_counter[cid].latency_counter = 0

\* One client counts down a drop while another one has a latency counter
C5_Witness ==
    /\ \E cid \in Clients : state_counter[cid].dropped_counter > 0
    /\ \E cid \in Clients : state_counter[cid].latency_counter > 0
    /\ flushes > 0

\* ------------------------------------------------- flush under the skip
\* Round-fixed availability is on, a flush has toggled in this round and a
\* client is idle: line 423 skips the toggle
SkipCondition ==
    /\ roundwise_fixed_availability
    /\ availability_latest_round = current_round
    /\ IdleClients # {}

\* The updater states after one and after two flush() calls from here, for
\* every stream of draws
TwoFlushes ==
    UNION {{<<u1, u2>> : u2 \in FlushTimes({u1}, 1)} :
              u1 \in FlushTimes({Updater}, 1)}

\* The clients in each of the five states
StateSets(u) == [s \in _STATE |-> get_client_with_state(u, s)]

\* C11, as claimed: under the skip condition two consecutive flush() calls
\* leave the set of clients in each of the five states as it was, after the
\* first call and after the second.
C11_FlushTwiceChangesNothing ==
    SkipCondition =>
        \A p \in TwoFlushes :
            /\ StateSets(p[1]) = StateSets(Updater)
            /\ StateSets(p[2]) = StateSets(Updater)

\* C11, amended: under the skip condition two consecutive flush() calls make
\* no availability toggle: every client that is not dropped keeps its state
\* over both calls, and a dropped client either stays dropped or goes to
\* offline or idle and stays there; the skip condition holds after each call.
C11_FlushTwiceTogglesNothing ==
    SkipCondition =>
        \A p \in TwoFlushes : \A cid \in Clients :
            /\ p[1].availability_latest_round = availability_latest_round
            /\ p[2].availability_latest_round = availability_latest_round
            /\ get_client_with_state(p[1], "idle") # {}
            /\ IF client_states[cid] # "dropped"
               THEN /\ p[1].client_states[cid] = client_states[cid]
                    /\ p[2].client_states[cid] = client_states[cid]
               ELSE /\ p[1].client_states[cid] \in {"dropped", "offline", "idle"}
                    /\ p[2].client_states[cid] \in {"dropped", "offline", "idle"}
                    /\ p[1].client_states[cid] # "dropped"
                          => p[2].client_states[cid] = p[1].client_states[cid]

\* After a flush of this round the skip condition holds with an idle client
\* that a toggle could turn offline and a dropped client whose countdown is
\* over
C11_Witness ==
    /\ SkipCondition
    /\ flushes > 0
    /\ \E cid \in Clients :
          client_states[cid] = "idle" /\ variables[cid].prob_unavailable > 0
    /\ \E cid \in Clients :
          client_states[cid] = "dropped" /\ state_counter[cid].dropped_counter = 0

\* ---------------------------------------------------------- put and time
\* C12: put(payload, time) with time < 0 raises and leaves the queue
\* unchanged; with time >= 0 it succeeds and the queue has one element more.
C12_PutRejectsNegativeTime ==
    [][call'.op = "put" =>
        IF call'.arg < 0
        THEN call'.raised /\ q' = q
        ELSE ~call'.raised /\ Len(q') = Len(q) + 1]_vars

\* ------------------------------------------------------ with_completeness
\* set_variable(cid, 'working_amount', [v]) (lines 387-389), between calls
\* of train
SetWorkingAmount(cid, v) ==
    /\ pc = "ready"
    /\ train_frame = <<>>
    /\ _working_amount' = [_working_amount EXCEPT ![cid] = v]
    /\ call' = Call("set_variable", [cid |-> cid, value |-> v], FALSE)
    /\ UNCHANGED <<clockVars, updaterVars, variables,
                   roundwise_fixed_availability, tolerance_for_latency,
                   roundVars, result, nput, flushes, num_steps, train_frame>>
    /\ seen_time' = <<>>

\* train_with_incomplete_update, lines 555-557: the step count is saved and
\* overridden, and the wrapped train is entered
TrainCall(cid) ==
    /\ pc = "ready"
    /\ train_frame = <<>>
    /\ train_frame' = [cid |-> cid, old_num_steps |-> num_steps[cid]]
    /\ num_steps' = [num_steps EXCEPT ![cid] = _working_amount[cid]]
    /\ call' = Call("train", [cid |-> cid, old_num_steps |-> num_steps[cid]], FALSE)
    /\ UNCHANGED <<clockVars, updaterVars, variables,
                   roundwise_fixed_availability, tolerance_for_latency,
                   roundVars, result, nput, flushes, _working_amount>>
    /\ seen_time' = <<>>

\* Lines 557-559: the wrapped train returns, the step count is restored
TrainReturn ==
    /\ train_frame # <<>>
    /\ num_steps' = [num_steps EXCEPT ![train_frame.cid] = train_frame.old_num_steps]
    /\ train_frame' = <<>>
    /\ call' = Call("train_return", call.arg, FALSE)
    /\ UNCHANGED <<clockVars, updaterVars, variables,
                   roundwise_fixed_availability, tolerance_for_latency,
                   roundVars, result, nput, flushes, _working_amount>>
    /\ seen_time' = <<>>

\* Line 557: the wrapped train raises; the exception leaves
\* train_with_incomplete_update there, line 558 is not run
TrainRaise ==
    /\ train_frame # <<>>
    /\ train_frame' = <<>>
    /\ call' = Call("train_return", call.arg, TRUE)
    /\ UNCHANGED <<clockVars, updaterVars, variables,
                   roundwise_fixed_availability, tolerance_for_latency,
                   roundVars, result, nput, flushes, num_steps, _working_amount>>
    /\ seen_time' = <<>>

\* Clients of any step count, trained one call at a time
TrainInit ==
    /\ Blank
    /\ state_updater = TRUE
    /\ variables = [cid \in Clients |-> DefaultVariables]
    /\ roundwise_fixed_availability = FALSE
    /\ tolerance_for_latency = 0
    /\ num_steps \in [Clients -> 1 .. MaxSteps]
    /\ _working_amount = num_steps

TrainNext ==
    \/ \E cid \in Clients, v \in 1 .. MaxSteps : SetWorkingAmount(cid, v)
    \/ \E cid \in Clients : TrainCall(cid)
    \/ TrainReturn
    \/ TrainRaise

TrainSpec == TrainInit /\ [][TrainNext]_vars

\* C13: while the wrapped train runs the client's num_steps is its
\* working_amount, and after the call, whether train returned or raised,
\* num_steps is what it was before the call.
C13_NumStepsRestored ==
    /\ train_frame # <<>> =>
          num_steps[train_frame.cid] = _working_amount[train_frame.cid]
    /\ call.op = "train_return" =>
          num_steps[call.arg.cid] = call.arg.old_num_steps

\* ------------------------------------------- the synchronous collection
\* The clients the returned timing phase was called with whose package
\* arrives within its wait, in the order of the call's list
ArrivedInTime == SelectSeq(call.arg.selected, InTime)

\* C15: the list a synchronous timing phase hands to unpack has one package
\* per position of the surviving selection whose client's package arrived
\* within the wait, in the order of that selection whatever the arrival
\* times, and each package is that client's, arrived by the deadline.
C15_SyncResultInSelectionOrder ==
    SyncReturned =>
        /\ Len(result) = Len(ArrivedInTime)
        /\ \A i \in 1 .. Len(result) :
              /\ result[i].cid = ArrivedInTime[i]
              /\ result[i].t = call.arg.time + variables[result[i].cid].latency
              /\ result[i].t <= call.arg.time + call.arg.delta_t

\* A synchronous round returned two packages, the later arrival first
C15_Witness ==
    /\ SyncReturned
    /\ \E i, j \in 1 .. Len(result) : i < j /\ result[i].t > result[j].t

\* C16: a synchronous timing phase called with a non-empty list waits
\* delta = tolerance_for_latency if a client was dropped this round or
\* max_latency > tolerance_for_latency, and max_latency otherwise; it collects
\* exactly the packages, queued before or put by it, with arrival time
\* <= round-start time + delta, each once, and then the clock has advanced by
\* delta with delta flushes.
C16_SyncDeltaCollectAdvance ==
    SyncReturned =>
        LET max_latency == MaxLatencyOf(call.arg.selected)
            delta == IF \/ dropped_selected_clients # <<>>
                        \/ max_latency > tolerance_for_latency
                     THEN tolerance_for_latency ELSE max_latency
            due == {p \in PackagesBefore \cup PackagesPut :
                       p.t <= call.arg.time + delta}
        IN  /\ call.arg.delta_t = delta
            /\ Range(call.arg.eff_pkgs) = due
            /\ Len(call.arg.eff_pkgs) = Cardinality(due)
            /\ time = call.arg.time + delta
            /\ flushes = call.arg.flushes + delta

\* Nobody was dropped, a selected client is slower than the tolerance, and
\* the wait of tolerance_for_latency collected a package
C16_Witness ==
    /\ SyncReturned
    /\ dropped_selected_clients = <<>>
    /\ MaxLatencyOf(call.arg.selected) > tolerance_for_latency
    /\ tolerance_for_latency > 0
    /\ call.arg.eff_pkgs # <<>>
    /\ flushes = call.arg.flushes + tolerance_for_latency

\* C17: a synchronous timing phase that is called with an empty list advances
\* the clock by tolerance_for_latency if a client was dropped in this round,
\* and by zero otherwise.  With nobody surviving, a client was dropped in this
\* round exactly when the dropout phase of the round was called with somebody.
C17_EmptyRoundWaitsOnlyAfterDrop ==
    [][(pc = "clock" /\ ~asynchronous /\ selected_clients = <<>>) =>
          time' - time = IF call.arg.selected # <<>>
                         THEN tolerance_for_latency ELSE 0]_vars

\* ------------------------------------------------------ the dropout phase
\* The clients of the list sel of which an entry has a draw <= prob_drop
HitBy(sel, draws) ==
    {sel[i] : i \in {j \in 1 .. Len(sel) : draws[j] <= variables[sel[j]].prob_drop}}

\* C18: the dropout phase takes one draw per entry of the selection, in
\* order; exactly the clients with a draw <= prob_drop enter dropped, with
\* dropped_counter = tolerance_for_latency and latency_counter = 0, every
\* other client keeps its state and counters, and the wrapped communicate is
\* called, once, with the remaining clients in their order; with an empty
\* selection it is called with the empty list and nothing changes.
C18_DropoutDropsByDraw ==
    [][pc = "communicate" =>
        LET draws == call'.arg.draws
            hit == HitBy(selected_clients, draws)
        IN  /\ pc' = "clock"
            /\ call'.arg.selected = selected_clients
            /\ Len(draws) = Len(selected_clients)
            /\ \A cid \in Clients :
                  IF cid \in hit
                  THEN /\ client_states'[cid] = "dropped"
                       /\ state_counter'[cid] =
                             [dropped_counter |-> tolerance_for_latency,
                              latency_counter |-> 0]
                  ELSE /\ client_states'[cid] = client_states[cid]
                       /\ state_counter'[cid] = state_counter[cid]
            /\ selected_clients' =
                  SelectSeq(selected_clients, LAMBDA cid : cid \notin hit)
            /\ selected_clients = <<>> =>
                  /\ selected_clients' = <<>>
                  /\ UNCHANGED <<client_states, state_counter>>]_vars

\* The dropout phase dropped one of two selected clients on a draw equal to
\* its prob_drop and handed the other one on
C18_Witness ==
    /\ pc = "clock"
    /\ Len(call.arg.selected) = 2
    /\ Len(selected_clients) = 1
    /\ \E i \in 1 .. 2 :
          /\ call.arg.draws[i] = variables[call.arg.selected[i]].prob_drop
          /\ client_states[call.arg.selected[i]] = "dropped"
    /\ tolerance_for_latency > 0

\* ----------------------------------------------------- the dropped state
DroppedClients == get_client_with_state(Updater, "dropped")

\* The dropped clients the next flush resolves
CountdownOver ==
    {cid \in DroppedClients : state_counter[cid].dropped_counter = 0}

\* The position in the stream of draws of the next flush of the draw that
\* resolves the dropped client cid, if its countdown is over: after the draws
\* of the toggle and those of the dropped clients of smaller id whose
\* countdown is over too
ResolutionDraw(cid) ==
    (IF FlushToggles(Updater)
     THEN Cardinality(get_client_with_state(Updater, "offline"))
            + Cardinality(IdleClients)
     ELSE 0)
    + Cardinality({x \in CountdownOver : x <= cid})

\* C19: a client enters dropped with dropped_counter = tolerance_for_latency;
\* a dropped client with counter c is still dropped, with counter c - n, after
\* n <= c flushes and is offline or idle with counter 0 after more, so it
\* leaves on the (T+1)-th flush after entering with tolerance T; the flush
\* that resolves it sends it to offline if the resolution draw is
\* < prob_unavailable and to idle otherwise; dropped_counter is never negative.
C19_DroppedForToleranceFlushes ==
    /\ [](\A cid \in Clients : state_counter[cid].dropped_counter >= 0)
    /\ [](CountdownOver # {} =>
            \A draws \in DrawStreams :
                LET u == flush(Updater, draws)
                IN  \A cid \in CountdownOver :
                        /\ u.state_counter[cid].dropped_counter = 0
                        /\ u.client_states[cid] =
                              IF draws[ResolutionDraw(cid)]
                                     < variables[cid].prob_unavailable
                              THEN "offline" ELSE "idle")
    /\ [][\A cid \in Clients :
            IF client_states[cid] = "dropped"
            THEN LET n == flushes' - flushes
                     c == state_counter[cid].dropped_counter
                 IN  IF n <= c
                     THEN /\ client_states'[cid] = "dropped"
                          /\ state_counter'[cid].dropped_counter = c - n
                     ELSE /\ client_states'[cid] \in {"offline", "idle"}
                          /\ state_counter'[cid].dropped_counter = 0
            ELSE client_states'[cid] = "dropped" =>
                    /\ state_counter'[cid].dropped_counter = tolerance_for_latency
                    /\ flushes' = flushes]_vars

\* A client dropped in the round before, with a tolerance of MaxTolerance,
\* has been resolved to offline by a flush of the wait for an idle client
C19_Witness ==
    /\ pc = "sample"
    /\ call.op = "wait"
    /\ tolerance_for_latency = MaxTolerance
    /\ flushes = MaxTolerance + 1
    /\ \E cid \in Range(dropped_selected_clients) :
          /\ client_states[cid] = "offline"
          /\ variables[cid].prob_unavailable > 0

\* ------------------------------------------------------ the sampling phase
\* C20: the sampling phase returns the entries of the underlying selection
\* whose client is idle when the selection is made, in the selection's order
\* with repetitions; those clients end selected, the entries of the other
\* clients are recorded in unavailable_selected_clients, and every client
\* that is not returned keeps its state; no counter changes.
C20_SampleKeepsIdleInOrder ==
    [][(pc = "sample" /\ pc' = "communicate") =>
        LET selection == call'.arg.selection
            IsIdle(cid) == cid \in IdleClients
            IsNotIdle(cid) == cid \notin IdleClients
        IN  /\ selected_clients' = SelectSeq(selection, IsIdle)
            /\ unavailable_selected_clients' = SelectSeq(selection, IsNotIdle)
            /\ \A cid \in Clients :
                  client_states'[cid] =
                      IF cid \in Range(selection) /\ IsIdle(cid)
                      THEN "selected" ELSE client_states[cid]
            /\ state_counter' = state_counter]_vars

\* The selection named an idle client and one that was not idle
C20_Witness ==
    /\ pc = "communicate"
    /\ call.op = "sample"
    /\ selected_clients # <<>>
    /\ unavailable_selected_clients # <<>>
    /\ \A cid \in Range(unavailable_selected_clients) :
          client_states[cid] # "selected"

\* ------------------------------------------------ the time a flush finds
\* C21: the k-th flush of a step(delta) call finds current_time at the time
\* of the start of the call plus k - 1.
C21_FlushSeesAdvancingTime ==
    [][\A k \in 1 .. Len(seen_time') : seen_time'[k] = time + k - 1]_vars

\* ------------------------------------------- what a timing phase removes
\* The clients the returned timing phase has moved to offline: flush moves
\* no selected or working client, so these are the clients of line 633
MovedOffline ==
    {cid \in Clients : /\ call.arg.client_states[cid] \in {"selected", "working"}
                       /\ client_states[cid] = "offline"}

\* The packages the returned timing phase has taken out of the queue
PackagesRemoved ==
    (PackagesBefore \cup PackagesPut) \ {q[i].x : i \in 1 .. Len(q)}

\* The clients the returned timing phase has found overdue (line 625 runs in
\* the synchronous branch only)
OverdueInCall == IF SyncReturned THEN overdue_clients ELSE {}

\* C22: when a timing phase has returned, the clients it moved to offline
\* are the received_clients, and every package it took out of the queue is in
\* the result handed to unpack or is of a client it found overdue.
C22_NoPackageLost ==
    (pc = "returned" /\ call.op = "clock") =>
        /\ MovedOffline = Range(received_clients)
        /\ \A p \in PackagesRemoved :
              p \in Range(result) \/ p.cid \in OverdueInCall

\* ------------------------------------------------- the state between rounds
WorkingClients == get_client_with_state(Updater, "working")

\* The clients tagged on the packages in the queue
QueueCids == {q[i].x.cid : i \in 1 .. Len(q)}

\* The clients working when the returned timing phase was called
WorkingBefore == {cid \in Clients : call.arg.client_states[cid] = "working"}

\* C23, as claimed: when a round has returned, the clients tagged on the
\* queued packages are the working clients and no client is selected; after
\* a synchronous round the working clients are those of before the round and
\* none of the round's selected clients is working.
C23_QueueIsWorkingSetUnchanged ==
    pc = "returned" =>
        /\ QueueCids = WorkingClients
        /\ get_client_with_state(Updater, "selected") = {}
        /\ ~asynchronous =>
              /\ WorkingClients = WorkingBefore
              /\ WorkingClients \cap (Range(call.arg.selected)
                                        \cup Range(dropped_selected_clients)) = {}

====
